---- MODULE Spec2Model ----
(***************************************************************************)
(* Model of the two tutorial notebooks of Python-Basics-Webinar.           *)
(*                                                                         *)
(* A notebook is a kernel session: a list of code cells run top to bottom  *)
(* against one namespace of top-level names.  Arrays are objects that      *)
(* point into data buffers (buf, off, shape, strides), so that a view, an  *)
(* alias and a copy are different things in the model, as they are in the  *)
(* interpreter.  Every cell is one action; the statements of a cell take   *)
(* effect in order and an exception ends the cell where it is raised.      *)
(***************************************************************************)
EXTENDS Integers, Sequences, FiniteSets, TLC

VARIABLES
    pc,        \* introduction-to-numpy: index in CellOrder of the next cell
    rng,       \* introduction-to-numpy: hidden state of np.random
    heap,      \* data buffers: heap[b] is the flat data of buffer b
    env,       \* top-level names bound to arrays: name -> ndarray object
    defs,      \* top-level names bound to functions: name -> implementation
    out,       \* outcome of the cell that ran last
    written,   \* paths of the files written by the session
    inspected, \* path handed to the shell command `file`
    vin,       \* the literal bound to v1
    xin,       \* the two scalar literals handed to Theta, in tenths
    names,     \* initial-python-tutorial: the list searched
    loop,      \* which for-else loop runs (1, 2) or 3 when the cell is over
    i,         \* position of the loop iterator in names
    printed,   \* lines printed by the for-else cell
    nb,        \* name resolution: the notebook whose kernel session this is
    cell,      \* name resolution: index of the next code cell of nb
    bound,     \* top-level name -> line of the statement that bound it last
    seen,      \* lookups of the cell that ran last: <<name, line, bound at>>
    status,    \* how the cell that ran last ended
    absent     \* attributes the installed numpy does not have

vars == <<pc, rng, heap, env, defs, out, written, inspected, vin, xin,
          names, loop, i, printed, nb, cell, bound, seen, status, absent>>

nbvars == <<pc, rng, heap, env, defs, out, written, inspected, vin, xin>>
tutvars == <<names, loop, i, printed>>
sessvars == <<nb, cell, bound, seen, status, absent>>

----------------------------------------------------------------------------
(* Bounds of the model.                                                    *)

MaxSeed == 6      \* number of distinct states of np.random explored
MaxLen == 3       \* longest list / vector drawn as an input
MaxAbs == 2       \* drawn vector elements range over -MaxAbs..MaxAbs

----------------------------------------------------------------------------
(* Arithmetic helpers.                                                     *)

Max(x, y) == IF x >= y THEN x ELSE y
Min(x, y) == IF x <= y THEN x ELSE y

RECURSIVE Prod(_)
Prod(s) == IF s = <<>> THEN 1 ELSE Head(s) * Prod(Tail(s))

RECURSIVE Dot(_, _)
Dot(s, t) == IF s = <<>> THEN 0 ELSE Head(s) * Head(t) + Dot(Tail(s), Tail(t))

\* int(x) of a fixed-point value given in hundredths: truncation toward zero
Trunc100(h) == IF h >= 0 THEN h \div 100 ELSE -((-h) \div 100)

----------------------------------------------------------------------------
(* ndarray objects and the buffers they point into.                        *)

\* row-major (C order) strides, in elements
CStrides(shape) ==
    [d \in 1..Len(shape) |-> Prod(SubSeq(shape, d + 1, Len(shape)))]

ndarray(buf, off, shape, strides) ==
    [buf |-> buf, off |-> off, shape |-> shape, strides |-> strides]

Unbound == ndarray(0, 0, <<>>, <<>>)
IsBound(arr) == arr.buf # 0

\* multi-index (0-based) of the k-th element (0-based) in row-major order
Unravel(k, shape) ==
    [d \in 1..Len(shape) |->
        (k \div Prod(SubSeq(shape, d + 1, Len(shape)))) % shape[d]]

\* position in the buffer (0-based) of the element at multi-index idx
FlatPos(arr, idx) == arr.off + Dot(idx, arr.strides)

\* a negative index counts from the end
NormIndex(k, n) == IF k < 0 THEN k + n ELSE k

\* the value read through an array object: its shape and row-major data
Value(shape, data) == [shape |-> shape, data |-> data]

Read(h, arr) ==
    Value(arr.shape,
          [k \in 1..Prod(arr.shape) |->
              h[arr.buf][FlatPos(arr, Unravel(k - 1, arr.shape)) + 1]])

\* x[idx] = v for a full index tuple idx (negative indices allowed)
SetItem(h, arr, idx, v) ==
    LET nidx == [d \in 1..Len(idx) |-> NormIndex(idx[d], arr.shape[d])]
    IN  [h EXCEPT ![arr.buf][FlatPos(arr, nidx) + 1] = v]

\* x[idx] for a full index tuple idx
GetItem(h, arr, idx) ==
    LET nidx == [d \in 1..Len(idx) |-> NormIndex(idx[d], arr.shape[d])]
    IN  h[arr.buf][FlatPos(arr, nidx) + 1]

\* view[...] = vals, element by element (the shapes already agree)
RECURSIVE SetAll(_, _, _, _)
SetAll(h, arr, vals, k) ==
    IF k > Len(vals) THEN h
    ELSE SetAll([h EXCEPT ![arr.buf][FlatPos(arr, Unravel(k - 1, arr.shape)) + 1]
                              = vals[k]],
                arr, vals, k + 1)

----------------------------------------------------------------------------
(* Basic slicing: lower:upper:step.  An omitted bound is <<>>, a given     *)
(* bound k is <<k>>.                                                       *)

None == <<>>
Some(k) == <<k>>

\* SliceBound that clamps a negative bound instead of counting from the end
SliceBound_NoWrap(b, n, step, isStart) ==
    LET lower == IF step < 0 THEN -1 ELSE 0
        upper == IF step < 0 THEN n - 1 ELSE n
    IN  IF b = None
        THEN (IF isStart THEN (IF step < 0 THEN upper ELSE lower)
                         ELSE (IF step < 0 THEN lower ELSE upper))
        ELSE IF b[1] < 0 THEN Max(b[1], lower) ELSE Min(b[1], upper)

SliceBound(b, n, step, isStart) ==
    LET lower == IF step < 0 THEN -1 ELSE 0
        upper == IF step < 0 THEN n - 1 ELSE n
    IN  IF b = None
        THEN (IF isStart THEN (IF step < 0 THEN upper ELSE lower)
                         ELSE (IF step < 0 THEN lower ELSE upper))
        ELSE IF b[1] < 0 THEN Max(b[1] + n, lower) ELSE Min(b[1], upper)

SliceLen(start, stop, step) ==
    IF step > 0
    THEN (IF start < stop THEN (stop - start - 1) \div step + 1 ELSE 0)
    ELSE (IF stop < start THEN (start - stop - 1) \div (-step) + 1 ELSE 0)

\* arr[lo:hi:step] on the first axis: a view, the buffer is shared
SliceView(arr, lo, hi, step) ==
    LET n == arr.shape[1]
        start == SliceBound(lo, n, step, TRUE)
        stop == SliceBound(hi, n, step, FALSE)
    IN  ndarray(arr.buf,
                arr.off + start * arr.strides[1],
                <<SliceLen(start, stop, step)>> \o Tail(arr.shape),
                <<arr.strides[1] * step>> \o Tail(arr.strides))

\* arr[:, None] of a one-dimensional arr: a view with a new axis of length 1
NewAxis(arr) ==
    ndarray(arr.buf, arr.off, arr.shape \o <<1>>, arr.strides \o <<0>>)

\* arr.reshape(shape) of a C-contiguous arr: a view
Reshape(arr, shape) == ndarray(arr.buf, arr.off, shape, CStrides(shape))

\* np.arange(lo, hi)
arange(lo, hi) == [k \in 1..Max(hi - lo, 0) |-> lo + k - 1]

----------------------------------------------------------------------------
(* Results of expressions and outcomes of cells.                           *)

Ok(val) == [status |-> "ok", err |-> "", shape |-> val.shape, data |-> val.data]
Error(e) == [status |-> "error", err |-> e, shape |-> <<>>, data |-> <<>>]
NoOutput == [status |-> "none", err |-> "", shape |-> <<>>, data |-> <<>>]

\* a Python scalar is a value of shape ()
Scalar(x) == Value(<<>>, <<x>>)

BoolToInt(b) == IF b THEN 1 ELSE 0

----------------------------------------------------------------------------
(* Broadcasting and element-wise multiplication.                           *)

\* shape s padded on the left with 1s to n dimensions
PadShape(s, n) == [d \in 1..n |-> IF d <= n - Len(s) THEN 1 ELSE s[d - (n - Len(s))]]

\* CanBroadcast that asks for equal shapes
CanBroadcast_Exact(s, t) == s = t

CanBroadcast(s, t) ==
    LET n == Max(Len(s), Len(t))
        ps == PadShape(s, n)
        pt == PadShape(t, n)
    IN  \A d \in 1..n : ps[d] = pt[d] \/ ps[d] = 1 \/ pt[d] = 1

BroadcastShape(s, t) ==
    LET n == Max(Len(s), Len(t))
        ps == PadShape(s, n)
        pt == PadShape(t, n)
    IN  [d \in 1..n |-> IF ps[d] = 1 THEN pt[d] ELSE ps[d]]

\* element of val seen at multi-index idx of the broadcast result
BroadcastAt(val, idx) ==
    LET n == Len(idx)
        m == Len(val.shape)
        own == [d \in 1..m |-> IF val.shape[d] = 1 THEN 0 ELSE idx[d + (n - m)]]
    IN  val.data[Dot(own, CStrides(val.shape)) + 1]

\* x * y
Multiply(x, y) ==
    IF ~CanBroadcast(x.shape, y.shape)
    THEN Error("ValueError")
    ELSE LET r == BroadcastShape(x.shape, y.shape)
         IN  Ok(Value(r, [k \in 1..Prod(r) |->
                     BroadcastAt(x, Unravel(k - 1, r)) * BroadcastAt(y, Unravel(k - 1, r))]))

----------------------------------------------------------------------------
(* np.where and fancy indexing.                                            *)

\* the positions (0-based, row-major) of the elements of val greater than c
RECURSIVE WhereGreater(_, _, _)
WhereGreater(val, c, k) ==
    IF k > Len(val.data) THEN <<>>
    ELSE (IF val.data[k] > c THEN <<k - 1>> ELSE <<>>) \o WhereGreater(val, c, k + 1)

\* np.where(val > c): one index array per axis, kept as the rows of a
\* (ndim, count) table
where(val, c) ==
    LET hits == WhereGreater(val, c, 1)
        nd == Len(val.shape)
        cnt == Len(hits)
    IN  Value(<<nd, cnt>>,
              [k \in 1..(nd * cnt) |->
                  Unravel(hits[((k - 1) % cnt) + 1], val.shape)[((k - 1) \div cnt) + 1]])

\* arr[idxs] for the index arrays idxs: the selected elements, as fresh data
FancyIndex(h, arr, idxs) ==
    LET nd == idxs.shape[1]
        cnt == idxs.shape[2]
    IN  [k \in 1..cnt |->
            GetItem(h, arr, [d \in 1..nd |-> idxs.data[(d - 1) * cnt + k]])]

----------------------------------------------------------------------------
(* np.random: a generator with hidden state.                               *)

RngModulus == 64
RngStep(s) == (s * 21 + 7) % RngModulus

RECURSIVE RngStates(_, _)
RngStates(s, n) == IF n = 0 THEN <<>> ELSE <<RngStep(s)>> \o RngStates(RngStep(s), n - 1)

\* np.random.randint(high, size=n): n draws from 0..high-1
randint(s, high, n) ==
    LET st == RngStates(s, n)
    IN  [vals |-> [k \in 1..n |-> st[k] % high],
         state |-> IF n = 0 THEN s ELSE st[n]]

\* np.random.randn(n): n draws, kept in hundredths
randn(s, n) ==
    LET st == RngStates(s, n)
    IN  [vals |-> [k \in 1..n |-> (st[k] * 10) - 320],
         state |-> IF n = 0 THEN s ELSE st[n]]

----------------------------------------------------------------------------
(* Paths.                                                                  *)

RECURSIVE NormPath(_)
NormPath(p) ==
    IF p = <<>> THEN <<>>
    ELSE IF Head(p) = "." THEN NormPath(Tail(p))
    ELSE <<Head(p)>> \o NormPath(Tail(p))

----------------------------------------------------------------------------
(* The Heaviside step function, in its three implementations.              *)

\* Truth that takes an array as true when any of its elements is
Truth_Any(val) ==
    [ok |-> TRUE, b |-> \E k \in 1..Len(val.data) : val.data[k]]

\* bool(x) of a comparison result, as the if statement takes it
Truth(val) ==
    IF Prod(val.shape) = 1 THEN [ok |-> TRUE, b |-> val.data[1]]
    ELSE IF Prod(val.shape) = 0 THEN [ok |-> TRUE, b |-> FALSE]
    ELSE [ok |-> FALSE, b |-> FALSE]

\* x >= c, element-wise
GreaterEqual(x, c) == Value(x.shape, [k \in 1..Len(x.data) |-> x.data[k] >= c])

\* ThetaScalar with x > 0 as its test
ThetaScalar_Strict(x) ==
    LET t == Truth(Value(x.shape, [k \in 1..Len(x.data) |-> x.data[k] > 0]))
    IN  IF ~t.ok THEN Error("ValueError")
        ELSE IF t.b THEN Ok(Scalar(1)) ELSE Ok(Scalar(0))

\* def Theta(x): if x >= 0: return 1 else: return 0
ThetaScalar(x) ==
    LET t == Truth(GreaterEqual(x, 0))
    IN  IF ~t.ok THEN Error("ValueError")
        ELSE IF t.b THEN Ok(Scalar(1)) ELSE Ok(Scalar(0))

\* def Theta(x): return 1 * (x >= 0)
ThetaVector(x) ==
    LET c == GreaterEqual(x, 0)
    IN  Ok(Value(c.shape, [k \in 1..Len(c.data) |-> 1 * BoolToInt(c.data[k])]))

NoFunc == [kind |-> "unbound", pyfunc |-> "none"]
ScalarFunc == [kind |-> "scalar", pyfunc |-> "none"]
VectorFunc == [kind |-> "vector", pyfunc |-> "none"]

\* np.vectorize(f): keeps the function object f names now
vectorize(f) == [kind |-> "vectorize", pyfunc |-> f.kind]

PyCall(kind, x) ==
    IF kind = "scalar" THEN ThetaScalar(x)
    ELSE IF kind = "vector" THEN ThetaVector(x)
    ELSE Error("NameError")

\* calling np.vectorize(f) on x: f on every element, one at a time
VectorizeCall(kind, x) ==
    LET res == [k \in 1..Len(x.data) |-> PyCall(kind, Scalar(x.data[k]))]
    IN  IF Len(x.data) = 0 THEN Error("ValueError")
        ELSE IF \E k \in 1..Len(res) : res[k].status = "error"
        THEN Error(res[CHOOSE k \in 1..Len(res) :
                          /\ res[k].status = "error"
                          /\ \A j \in 1..(k - 1) : res[j].status # "error"].err)
        ELSE Ok(Value(x.shape, [k \in 1..Len(res) |-> res[k].data[1]]))

\* f(x) for the function object f
Call(f, x) ==
    IF f.kind = "vectorize" THEN VectorizeCall(f.pyfunc, x)
    ELSE PyCall(f.kind, x)

----------------------------------------------------------------------------
(* The session of introduction-to-numpy.ipynb.                             *)

EnvNames == {"integers", "a", "s1", "arr", "idxs", "greater10", "random_arr",
             "vec", "A", "B", "v1"}

\* the code cells that bind, change or read the names above, top to bottom
CellOrder ==
    << "integers", "integers_item", "integers_slice",
       "a", "s1", "a_item",
       "arr_argmax", "idxs", "greater10", "greater10_item",
       "save",
       "vec", "arr", "vec_arr", "vec_col_arr", "vec_col4_arr",
       "a_matrix",
       "A", "B_alias", "B_item", "B_copy", "B_copy_item",
       "def_Theta", "v1", "Theta_vec", "Theta_vec_v1",
       "def_Theta_vector", "Theta_v1", "Theta_scalars" >>

NumCells == Len(CellOrder)

RECURSIVE IndexOf(_, _)
IndexOf(label, k) ==
    IF k > NumCells THEN 0
    ELSE IF CellOrder[k] = label THEN k ELSE IndexOf(label, k + 1)

\* the cell named label has run
After(label) == pc > IndexOf(label, 1)

AtCell(label) == pc <= NumCells /\ CellOrder[pc] = label

\* a new buffer holding data, and the C-contiguous array over it
Alloc(h, data) == Append(h, data)
Fresh(h, shape) == ndarray(Len(h) + 1, 0, shape, CStrides(shape))

\* the cell ends: the session holds h, e, d and the cell shows o
Finish(h, e, d, o) ==
    /\ heap' = h
    /\ env' = e
    /\ defs' = d
    /\ out' = o
    /\ pc' = pc + 1
    /\ UNCHANGED tutvars
    /\ UNCHANGED sessvars

num_samples == 10
RandHigh == 23

\* integers = np.random.randint(23, size=num_samples); integers
CellIntegers ==
    /\ AtCell("integers")
    /\ LET draw == randint(rng, RandHigh, num_samples)
           h == Alloc(heap, draw.vals)
           e == [env EXCEPT !["integers"] = Fresh(heap, <<num_samples>>)]
       IN  /\ rng' = draw.state
           /\ Finish(h, e, defs, Ok(Read(h, e["integers"])))
    /\ UNCHANGED <<written, inspected, vin, xin>>

\* x[index] = v, where v is written with the array's integer type
AssignItem(h, arr, idx, v) == SetItem(h, arr, idx, v)

\* print(integers); integers[4] = 99.21; integers
CellIntegersItem ==
    /\ AtCell("integers_item")
    /\ IF ~IsBound(env["integers"])
       THEN Finish(heap, env, defs, Error("NameError"))
       ELSE LET h == AssignItem(heap, env["integers"], <<4>>, Trunc100(9921))
            IN  Finish(h, env, defs, Ok(Read(h, env["integers"])))
    /\ UNCHANGED <<rng, written, inspected, vin, xin>>

\* view[...] = val: val is broadcast to the shape of the view
AssignSlice(h, view, val) ==
    IF ~CanBroadcast(val.shape, view.shape)
          \/ BroadcastShape(val.shape, view.shape) # view.shape
    THEN [ok |-> FALSE, heap |-> h]
    ELSE [ok |-> TRUE,
          heap |-> SetAll(h, view,
                          [k \in 1..Prod(view.shape) |->
                              BroadcastAt(val, Unravel(k - 1, view.shape))], 1)]

\* integers[-2:] = [-23, -46]; integers
CellIntegersSlice ==
    /\ AtCell("integers_slice")
    /\ IF ~IsBound(env["integers"])
       THEN Finish(heap, env, defs, Error("NameError"))
       ELSE LET view == SliceView(env["integers"], Some(-2), None, 1)
                res == AssignSlice(heap, view, Value(<<2>>, <<-23, -46>>))
            IN  IF res.ok
                THEN Finish(res.heap, env, defs, Ok(Read(res.heap, env["integers"])))
                ELSE Finish(heap, env, defs, Error("ValueError"))
    /\ UNCHANGED <<rng, written, inspected, vin, xin>>

\* a = np.arange(10); a
CellA ==
    /\ AtCell("a")
    /\ LET h == Alloc(heap, arange(0, 10))
           e == [env EXCEPT !["a"] = Fresh(heap, <<10>>)]
       IN  Finish(h, e, defs, Ok(Read(h, e["a"])))
    /\ UNCHANGED <<rng, written, inspected, vin, xin>>

\* CellS1 with the slice taken as a copy of the selected elements
CellS1_Copy ==
    /\ AtCell("s1")
    /\ LET v == SliceView(env["a"], Some(1), None, 3)
           h == Alloc(heap, Read(heap, v).data)
           e == [env EXCEPT !["s1"] = Fresh(heap, v.shape)]
       IN  Finish(h, e, defs, Ok(Read(h, e["s1"])))
    /\ UNCHANGED <<rng, written, inspected, vin, xin>>

\* s1 = a[1::3]; s1
CellS1 ==
    /\ AtCell("s1")
    /\ IF ~IsBound(env["a"])
       THEN Finish(heap, env, defs, Error("NameError"))
       ELSE LET e == [env EXCEPT !["s1"] = SliceView(env["a"], Some(1), None, 3)]
            IN  Finish(heap, e, defs, Ok(Read(heap, e["s1"])))
    /\ UNCHANGED <<rng, written, inspected, vin, xin>>

\* a[7] = 77; s1
CellAItem ==
    /\ AtCell("a_item")
    /\ IF ~IsBound(env["a"])
       THEN Finish(heap, env, defs, Error("NameError"))
       ELSE LET h == AssignItem(heap, env["a"], <<7>>, 77)
            IN  IF ~IsBound(env["s1"])
                THEN Finish(h, env, defs, Error("NameError"))
                ELSE Finish(h, env, defs, Ok(Read(h, env["s1"])))
    /\ UNCHANGED <<rng, written, inspected, vin, xin>>

\* arr = np.arange(4, 2 * 11).reshape(2, 9); arr
CellArrArgmax ==
    /\ AtCell("arr_argmax")
    /\ LET h == Alloc(heap, arange(4, 2 * 11))
           e == [env EXCEPT !["arr"] = Reshape(Fresh(heap, <<2 * 11 - 4>>), <<2, 9>>)]
       IN  Finish(h, e, defs, Ok(Read(h, e["arr"])))
    /\ UNCHANGED <<rng, written, inspected, vin, xin>>

\* idxs = np.where(arr > 10); idxs
CellIdxs ==
    /\ AtCell("idxs")
    /\ IF ~IsBound(env["arr"])
       THEN Finish(heap, env, defs, Error("NameError"))
       ELSE LET w == where(Read(heap, env["arr"]), 10)
                h == Alloc(heap, w.data)
                e == [env EXCEPT !["idxs"] = Fresh(heap, w.shape)]
            IN  Finish(h, e, defs, Ok(w))
    /\ UNCHANGED <<rng, written, inspected, vin, xin>>

\* TakeFancy handing out a view that starts at the first selected element
TakeFancy_View(h, arr, idxs) ==
    LET iv == Read(h, idxs)
        first == [d \in 1..iv.shape[1] |-> iv.data[(d - 1) * iv.shape[2] + 1]]
    IN  [heap |-> h,
         arr |-> ndarray(arr.buf, FlatPos(arr, first), <<iv.shape[2]>>, <<1>>)]

\* the object that arr[idxs] evaluates to, and the heap that holds it
TakeFancy(h, arr, idxs) ==
    LET sel == FancyIndex(h, arr, Read(h, idxs))
    IN  [heap |-> Alloc(h, sel), arr |-> Fresh(h, <<Len(sel)>>)]

\* greater10 = arr[idxs]; greater10
CellGreater10 ==
    /\ AtCell("greater10")
    /\ IF ~IsBound(env["arr"]) \/ ~IsBound(env["idxs"])
       THEN Finish(heap, env, defs, Error("NameError"))
       ELSE LET t == TakeFancy(heap, env["arr"], env["idxs"])
                e == [env EXCEPT !["greater10"] = t.arr]
            IN  Finish(t.heap, e, defs, Ok(Read(t.heap, e["greater10"])))
    /\ UNCHANGED <<rng, written, inspected, vin, xin>>

\* greater10[-1] = 0; arr
CellGreater10Item ==
    /\ AtCell("greater10_item")
    /\ IF ~IsBound(env["greater10"])
       THEN Finish(heap, env, defs, Error("NameError"))
       ELSE LET h == AssignItem(heap, env["greater10"], <<-1>>, 0)
            IN  IF ~IsBound(env["arr"])
                THEN Finish(h, env, defs, Error("NameError"))
                ELSE Finish(h, env, defs, Ok(Read(h, env["arr"])))
    /\ UNCHANGED <<rng, written, inspected, vin, xin>>

\* the path np.save writes and the path the shell command file is given
SavePath == <<".", "random-array.npy">>
FilePath == <<"persist", "random-array.npy">>

\* random_arr = np.random.randn(2, 3, 4)
\* np.save("./random-array.npy", random_arr)
\* !file persist/random-array.npy
CellSave ==
    /\ AtCell("save")
    /\ LET draw == randn(rng, 2 * 3 * 4)
           h == Alloc(heap, draw.vals)
           e == [env EXCEPT !["random_arr"] = Fresh(heap, <<2, 3, 4>>)]
       IN  /\ rng' = draw.state
           /\ written' = written \cup {NormPath(SavePath)}
           /\ inspected' = NormPath(FilePath)
           /\ Finish(h, e, defs, NoOutput)
    /\ UNCHANGED <<vin, xin>>

\* vec = np.arange(0, 5); vec
CellVec ==
    /\ AtCell("vec")
    /\ LET h == Alloc(heap, arange(0, 5))
           e == [env EXCEPT !["vec"] = Fresh(heap, <<5>>)]
       IN  Finish(h, e, defs, Ok(Read(h, e["vec"])))
    /\ UNCHANGED <<rng, written, inspected, vin, xin>>

\* arr = np.arange(4 * 5).reshape(4, 5); arr
CellArr ==
    /\ AtCell("arr")
    /\ LET h == Alloc(heap, arange(0, 4 * 5))
           e == [env EXCEPT !["arr"] = Reshape(Fresh(heap, <<4 * 5>>), <<4, 5>>)]
       IN  Finish(h, e, defs, Ok(Read(h, e["arr"])))
    /\ UNCHANGED <<rng, written, inspected, vin, xin>>

\* an expression cell over vec and arr: the names are looked up, then lhs * arr
MultiplyCell(lhs) ==
    IF ~IsBound(env["vec"]) \/ ~IsBound(env["arr"])
    THEN Finish(heap, env, defs, Error("NameError"))
    ELSE Finish(heap, env, defs, Multiply(Read(heap, lhs), Read(heap, env["arr"])))

\* print(vec.shape, arr.shape); vec * arr
CellVecArr ==
    /\ AtCell("vec_arr")
    /\ MultiplyCell(env["vec"])
    /\ UNCHANGED <<rng, written, inspected, vin, xin>>

\* vec[:, None] * arr
CellVecColArr ==
    /\ AtCell("vec_col_arr")
    /\ MultiplyCell(NewAxis(SliceView(env["vec"], None, None, 1)))
    /\ UNCHANGED <<rng, written, inspected, vin, xin>>

\* vec[:4, None] * arr
CellVecCol4Arr ==
    /\ AtCell("vec_col4_arr")
    /\ MultiplyCell(NewAxis(SliceView(env["vec"], None, Some(4), 1)))
    /\ UNCHANGED <<rng, written, inspected, vin, xin>>

\* a = np.array([[1, 2], [3, 4]]); a
CellAMatrix ==
    /\ AtCell("a_matrix")
    /\ LET h == Alloc(heap, <<1, 2, 3, 4>>)
           e == [env EXCEPT !["a"] = Fresh(heap, <<2, 2>>)]
       IN  Finish(h, e, defs, Ok(Read(h, e["a"])))
    /\ UNCHANGED <<rng, written, inspected, vin, xin>>

\* A = np.array([[1, 2], [3, 4]]); A
CellBigA ==
    /\ AtCell("A")
    /\ LET h == Alloc(heap, <<1, 2, 3, 4>>)
           e == [env EXCEPT !["A"] = Fresh(heap, <<2, 2>>)]
       IN  Finish(h, e, defs, Ok(Read(h, e["A"])))
    /\ UNCHANGED <<rng, written, inspected, vin, xin>>

\* B = A; B
CellBAlias ==
    /\ AtCell("B_alias")
    /\ IF ~IsBound(env["A"])
       THEN Finish(heap, env, defs, Error("NameError"))
       ELSE LET e == [env EXCEPT !["B"] = env["A"]]
            IN  Finish(heap, e, defs, Ok(Read(heap, e["B"])))
    /\ UNCHANGED <<rng, written, inspected, vin, xin>>

\* B[0,0] = v; A
AssignBShowA(v) ==
    IF ~IsBound(env["B"])
    THEN Finish(heap, env, defs, Error("NameError"))
    ELSE LET h == AssignItem(heap, env["B"], <<0, 0>>, v)
         IN  IF ~IsBound(env["A"])
             THEN Finish(h, env, defs, Error("NameError"))
             ELSE Finish(h, env, defs, Ok(Read(h, env["A"])))

\* B[0,0] = 10; A
CellBItem ==
    /\ AtCell("B_item")
    /\ AssignBShowA(10)
    /\ UNCHANGED <<rng, written, inspected, vin, xin>>

\* copy handing back the array it was given
copy_Alias(h, arr) == [heap |-> h, arr |-> arr]

\* np.copy(arr): a new array over a new buffer
copy(h, arr) ==
    [heap |-> Alloc(h, Read(h, arr).data), arr |-> Fresh(h, arr.shape)]

\* B = np.copy(A)
CellBCopy ==
    /\ AtCell("B_copy")
    /\ IF ~IsBound(env["A"])
       THEN Finish(heap, env, defs, Error("NameError"))
       ELSE LET c == copy(heap, env["A"])
            IN  Finish(c.heap, [env EXCEPT !["B"] = c.arr], defs, NoOutput)
    /\ UNCHANGED <<rng, written, inspected, vin, xin>>

\* B[0,0] = -5; A
CellBCopyItem ==
    /\ AtCell("B_copy_item")
    /\ AssignBShowA(-5)
    /\ UNCHANGED <<rng, written, inspected, vin, xin>>

\* def Theta(x): the scalar implementation
CellDefTheta ==
    /\ AtCell("def_Theta")
    /\ Finish(heap, env, [defs EXCEPT !["Theta"] = ScalarFunc], NoOutput)
    /\ UNCHANGED <<rng, written, inspected, vin, xin>>

\* CellV1 that drops the binding of v1 when Theta(v1) fails
CellV1_Rollback ==
    /\ AtCell("v1")
    /\ LET h == Alloc(heap, vin)
           e == [env EXCEPT !["v1"] = Fresh(heap, <<Len(vin)>>)]
           r == Call(defs["Theta"], Read(h, e["v1"]))
       IN  IF r.status = "error"
           THEN Finish(heap, env, defs, r)
           ELSE Finish(h, e, defs, r)
    /\ UNCHANGED <<rng, written, inspected, vin, xin>>

\* v1 = np.array([-3,-2,-1,0,1,2,3]); Theta(v1)
CellV1 ==
    /\ AtCell("v1")
    /\ LET h == Alloc(heap, vin)
           e == [env EXCEPT !["v1"] = Fresh(heap, <<Len(vin)>>)]
       IN  Finish(h, e, defs, Call(defs["Theta"], Read(h, e["v1"])))
    /\ UNCHANGED <<rng, written, inspected, vin, xin>>

\* Theta_vec = np.vectorize(Theta)
CellThetaVec ==
    /\ AtCell("Theta_vec")
    /\ IF defs["Theta"] = NoFunc
       THEN Finish(heap, env, defs, Error("NameError"))
       ELSE Finish(heap, env, [defs EXCEPT !["Theta_vec"] = vectorize(defs["Theta"])],
                   NoOutput)
    /\ UNCHANGED <<rng, written, inspected, vin, xin>>

\* an expression cell f(v1)
CallOnV1(f) ==
    IF f = NoFunc \/ ~IsBound(env["v1"])
    THEN Finish(heap, env, defs, Error("NameError"))
    ELSE Finish(heap, env, defs, Call(f, Read(heap, env["v1"])))

\* Theta_vec(v1)
CellThetaVecV1 ==
    /\ AtCell("Theta_vec_v1")
    /\ CallOnV1(defs["Theta_vec"])
    /\ UNCHANGED <<rng, written, inspected, vin, xin>>

\* def Theta(x): the vector-aware implementation
CellDefThetaVector ==
    /\ AtCell("def_Theta_vector")
    /\ Finish(heap, env, [defs EXCEPT !["Theta"] = VectorFunc], NoOutput)
    /\ UNCHANGED <<rng, written, inspected, vin, xin>>

\* Theta(v1)
CellThetaV1 ==
    /\ AtCell("Theta_v1")
    /\ CallOnV1(defs["Theta"])
    /\ UNCHANGED <<rng, written, inspected, vin, xin>>

\* Theta(-1.2), Theta(2.6): a tuple of the two results
CellThetaScalars ==
    /\ AtCell("Theta_scalars")
    /\ LET r1 == Call(defs["Theta"], Scalar(xin[1]))
           r2 == Call(defs["Theta"], Scalar(xin[2]))
       IN  IF r1.status = "error" THEN Finish(heap, env, defs, r1)
           ELSE IF r2.status = "error" THEN Finish(heap, env, defs, r2)
           ELSE Finish(heap, env, defs, Ok(Value(<<2>>, <<r1.data[1], r2.data[1]>>)))
    /\ UNCHANGED <<rng, written, inspected, vin, xin>>

----------------------------------------------------------------------------
(* The for-else cell of initial-python-tutorial.  A step is one iteration  *)
(* of a loop or the run of its else branch.                                *)

Names == {"Leanord", "Sheldon", "Penny", "Evan"}

\* the name each of the two loops compares with
Target(l) == IF l = 1 THEN "Leanord" ELSE "Evan"

Found(t) == <<"Found", t>>
NotFound(t) == <<"Did not find", t>>

\* ForBody without the break: the loop goes on after a hit
ForBody_NoBreak ==
    /\ loop \in {1, 2}
    /\ i < Len(names)
    /\ IF names[i + 1] = Target(loop)
       THEN printed' = Append(printed, Found(Target(loop)))
       ELSE UNCHANGED printed
    /\ i' = i + 1
    /\ UNCHANGED <<names, loop>>
    /\ UNCHANGED nbvars
    /\ UNCHANGED sessvars

\* the body of the loop for one name: print and break on the target
ForBody ==
    /\ loop \in {1, 2}
    /\ i < Len(names)
    /\ IF names[i + 1] = Target(loop)
       THEN /\ printed' = Append(printed, Found(Target(loop)))
            /\ loop' = loop + 1
            /\ i' = 0
       ELSE /\ i' = i + 1
            /\ UNCHANGED <<printed, loop>>
    /\ UNCHANGED names
    /\ UNCHANGED nbvars
    /\ UNCHANGED sessvars

\* the else branch: the iterator is exhausted and no break was executed
ForElse ==
    /\ loop \in {1, 2}
    /\ i = Len(names)
    /\ printed' = Append(printed, NotFound(Target(loop)))
    /\ loop' = loop + 1
    /\ i' = 0
    /\ UNCHANGED names
    /\ UNCHANGED nbvars
    /\ UNCHANGED sessvars

----------------------------------------------------------------------------
(* Name resolution in a kernel session.  Every code cell of a notebook is  *)
(* the sequence of its lookups and bindings of top-level names, in the     *)
(* order the interpreter performs them: <<"read", name, line>>,            *)
(* <<"bind", name, line>>, and <<"fail", cause, line>> where a statement   *)
(* raises after its operands were looked up and before it assigns.         *)
(* Builtins and the names local to a function or a comprehension are not   *)
(* top-level names.                                                        *)

NumpyCells ==
    <<
       << <<"bind", "np", 70>>, <<"bind", "plt", 71>> >>,
       << <<"read", "np", 81>> >>,
       << <<"read", "np", 98>> >>,
       << <<"read", "np", 109>> >>,
       << <<"bind", "lst", 142>>, <<"read", "np", 143>>,
          <<"read", "lst", 143>>, <<"read", "np", 143>>,
          <<"bind", "v", 143>>, <<"read", "v", 145>> >>,
       << <<"read", "v", 155>> >>,
       << <<"bind", "list_of_lists", 166>>, <<"read", "np", 167>>,
          <<"read", "list_of_lists", 167>>, <<"bind", "M", 167>>,
          <<"read", "M", 169>> >>,
       << <<"read", "v", 180>>, <<"read", "np", 180>>,
          <<"bind", "row_vec", 180>>, <<"read", "row_vec", 181>> >>,
       << <<"read", "v", 191>>, <<"read", "np", 191>>,
          <<"bind", "col_vec", 191>>, <<"read", "col_vec", 192>> >>,
       << <<"read", "np", 223>> >>,
       << <<"read", "np", 232>>, <<"read", "np", 232>> >>,
       << <<"read", "np", 243>>, <<"bind", "gaussian", 243>>,
          <<"read", "gaussian", 245>>, <<"read", "gaussian", 250>>,
          <<"bind", "gaussian", 250>>, <<"read", "gaussian", 251>> >>,
       << <<"read", "np", 263>>, <<"bind", "zero_arr", 263>>,
          <<"read", "zero_arr", 264>> >>,
       << <<"read", "np", 276>>, <<"read", "np", 276>>,
          <<"bind", "ones_arr", 276>>, <<"read", "ones_arr", 277>> >>,
       << <<"read", "np", 288>>, <<"read", "np", 288>>,
          <<"fail", "float128", 288>>, <<"bind", "iden", 288>>,
          <<"read", "iden", 289>>, <<"read", "np", 291>>,
          <<"read", "np", 291>>, <<"bind", "iden4", 291>>,
          <<"read", "iden4", 292>> >>,
       << <<"read", "np", 303>>, <<"bind", "diag", 303>>,
          <<"read", "diag", 304>> >>,
       << <<"read", "np", 314>>, <<"fail", "sctypes", 314>> >>,
       << <<"read", "np", 367>>, <<"bind", "gaussian", 367>> >>,
       << <<"read", "gaussian", 377>>, <<"read", "gaussian", 378>>,
          <<"read", "gaussian", 381>>, <<"read", "gaussian", 382>>,
          <<"read", "gaussian", 385>>, <<"read", "gaussian", 386>>,
          <<"read", "gaussian", 389>>, <<"read", "gaussian", 390>>,
          <<"read", "gaussian", 393>>, <<"read", "gaussian", 394>> >>,
       << <<"bind", "num_samples", 415>>, <<"read", "np", 416>>,
          <<"read", "num_samples", 416>>, <<"bind", "integers", 416>>,
          <<"read", "integers", 417>> >>,
       << <<"read", "integers", 428>> >>,
       << <<"read", "np", 437>>, <<"bind", "twoD_arr", 437>>,
          <<"read", "twoD_arr", 438>> >>,
       << <<"read", "twoD_arr", 451>> >>,
       << <<"read", "twoD_arr", 463>> >>,
       << <<"read", "gaussian", 476>> >>,
       << <<"read", "gaussian", 488>> >>,
       << <<"read", "gaussian", 500>> >>,
       << <<"read", "gaussian", 510>> >>,
       << <<"bind", "idx", 520>>, <<"read", "gaussian", 521>>,
          <<"read", "idx", 521>> >>,
       << <<"read", "integers", 539>>, <<"read", "integers", 540>>,
          <<"read", "integers", 541>> >>,
       << <<"read", "integers", 560>> >>,
       << <<"read", "integers", 574>> >>,
       << <<"read", "integers", 589>> >>,
       << <<"read", "integers", 599>> >>,
       << <<"read", "integers", 609>> >>,
       << <<"read", "integers", 619>> >>,
       << <<"read", "integers", 635>> >>,
       << <<"read", "integers", 645>>, <<"read", "integers", 647>> >>,
       << <<"read", "np", 664>>, <<"bind", "twenty", 664>>,
          <<"read", "twenty", 665>> >>,
       << <<"read", "twenty", 675>> >>,
       << <<"read", "twenty", 687>> >>,
       << <<"read", "twenty", 697>> >>,
       << <<"read", "twenty", 707>> >>,
       << <<"read", "twenty", 717>> >>,
       << <<"read", "np", 727>>, <<"read", "twenty", 727>>,
          <<"read", "np", 730>>, <<"read", "np", 730>>,
          <<"read", "twenty", 730>>, <<"read", "np", 731>>,
          <<"read", "np", 731>>, <<"read", "twenty", 731>> >>,
       << <<"read", "twenty", 749>> >>,
       << <<"bind", "row_indices", 759>>, <<"read", "twenty", 760>>,
          <<"read", "row_indices", 760>> >>,
       << <<"bind", "col_indices", 769>>, <<"read", "twenty", 770>>,
          <<"read", "row_indices", 770>>, <<"read", "col_indices", 770>> >>,
       << <<"read", "integers", 788>> >>,
       << <<"read", "np", 799>>, <<"bind", "row_mask", 799>>,
          <<"read", "integers", 801>>, <<"read", "row_mask", 801>> >>,
       << <<"read", "np", 811>>, <<"read", "np", 811>>,
          <<"fail", "bool", 811>>, <<"bind", "row_mask", 811>>,
          <<"read", "integers", 813>>, <<"read", "row_mask", 813>> >>,
       << <<"read", "np", 829>>, <<"bind", "range_arr", 829>>,
          <<"read", "range_arr", 830>> >>,
       << <<"read", "range_arr", 839>>, <<"read", "range_arr", 839>>,
          <<"bind", "mask", 839>>, <<"read", "mask", 840>> >>,
       << <<"read", "range_arr", 849>>, <<"read", "mask", 849>> >>,
       << <<"read", "range_arr", 860>>, <<"read", "range_arr", 860>>,
          <<"bind", "mask", 860>>, <<"read", "range_arr", 861>>,
          <<"read", "mask", 861>> >>,
       << <<"read", "np", 887>>, <<"bind", "a", 887>>, <<"read", "a", 888>> >>,
       << <<"read", "a", 898>>, <<"bind", "s1", 898>>, <<"read", "s1", 899>> >>,
       << <<"read", "a", 908>> >>,
       << <<"read", "a", 924>>, <<"read", "s1", 925>> >>,
       << <<"read", "np", 942>>, <<"bind", "b", 942>>, <<"read", "b", 943>> >>,
       << <<"read", "b", 952>>, <<"read", "np", 952>>,
          <<"bind", "b32", 952>>, <<"read", "b32", 953>>,
          <<"bind", "b32", 953>>, <<"read", "b", 956>> >>,
       << <<"read", "b", 965>>, <<"read", "np", 965>>, <<"bind", "b8", 965>>,
          <<"read", "b8", 966>> >>,
       << <<"read", "np", 993>>, <<"bind", "arr", 993>>,
          <<"read", "arr", 994>> >>,
       << <<"read", "np", 1005>>, <<"read", "arr", 1005>>,
          <<"read", "arr", 1006>> >>,
       << <<"read", "np", 1022>>, <<"bind", "arr", 1022>>,
          <<"read", "arr", 1023>> >>,
       << <<"read", "np", 1033>>, <<"read", "arr", 1033>>,
          <<"bind", "amax", 1033>>, <<"read", "np", 1034>>,
          <<"read", "amax", 1034>>, <<"read", "arr", 1034>>,
          <<"bind", "idx", 1034>>, <<"read", "idx", 1035>> >>,
       << <<"read", "arr", 1045>>, <<"read", "idx", 1045>> >>,
       << <<"read", "np", 1055>>, <<"read", "arr", 1055>> >>,
       << <<"read", "arr", 1064>> >>,
       << <<"read", "np", 1078>>, <<"read", "arr", 1078>>,
          <<"bind", "avg", 1078>>, <<"read", "avg", 1079>> >>,
       << <<"read", "np", 1089>>, <<"read", "arr", 1089>>,
          <<"bind", "idxs", 1089>>, <<"read", "idxs", 1090>> >>,
       << <<"read", "arr", 1100>>, <<"read", "idxs", 1100>>,
          <<"bind", "greater10", 1100>>, <<"read", "greater10", 1101>> >>,
       << <<"read", "greater10", 1112>>, <<"read", "arr", 1113>> >>,
       << <<"read", "np", 1129>>, <<"bind", "random_arr", 1129>>,
          <<"read", "np", 1130>>, <<"read", "random_arr", 1130>> >>,
       << <<"read", "np", 1167>>, <<"bind", "vec", 1167>>,
          <<"read", "vec", 1169>> >>,
       << <<"read", "vec", 1179>> >>,
       << <<"read", "vec", 1188>> >>,
       << <<"read", "np", 1206>>, <<"bind", "arr", 1206>>,
          <<"read", "arr", 1207>> >>,
       << <<"read", "np", 1216>>, <<"read", "arr", 1216>>,
          <<"read", "arr", 1216>> >>,
       << <<"read", "vec", 1225>>, <<"read", "arr", 1225>>,
          <<"read", "vec", 1228>>, <<"read", "arr", 1228>> >>,
       << <<"read", "vec", 1240>>, <<"read", "arr", 1240>>,
          <<"fail", "always", 1240>> >>,
       << <<"read", "vec", 1250>>, <<"read", "arr", 1250>> >>,
       << <<"read", "arr", 1268>>, <<"read", "arr", 1268>>,
          <<"read", "np", 1269>>, <<"read", "arr", 1269>>,
          <<"read", "arr", 1269>> >>,
       << <<"read", "arr", 1279>>, <<"read", "vec", 1279>>,
          <<"read", "np", 1280>>, <<"read", "arr", 1280>>,
          <<"read", "vec", 1280>> >>,
       << <<"read", "vec", 1289>>, <<"bind", "col_vec", 1289>>,
          <<"read", "col_vec", 1290>>, <<"read", "col_vec", 1290>>,
          <<"read", "col_vec", 1293>>, <<"read", "col_vec", 1293>> >>,
       << <<"read", "np", 1320>>, <<"bind", "a", 1320>>, <<"read", "a", 1321>> >>,
       << <<"read", "np", 1331>>, <<"read", "a", 1331>> >>,
       << <<"read", "np", 1341>>, <<"read", "a", 1341>> >>,
       << <<"read", "np", 1350>>, <<"bind", "b", 1350>>, <<"read", "b", 1351>> >>,
       << <<"read", "np", 1361>>, <<"read", "a", 1361>>, <<"read", "b", 1361>> >>,
       << <<"read", "np", 1371>>, <<"read", "a", 1371>>, <<"read", "b", 1371>> >>,
       << <<"read", "np", 1387>>, <<"read", "a", 1387>>, <<"read", "b", 1387>> >>,
       << <<"read", "np", 1396>>, <<"read", "a", 1396>>, <<"read", "b", 1396>> >>,
       << <<"read", "np", 1421>>, <<"bind", "A", 1421>>, <<"read", "A", 1423>> >>,
       << <<"read", "A", 1433>>, <<"bind", "B", 1433>>, <<"read", "B", 1434>> >>,
       << <<"read", "B", 1444>>, <<"read", "A", 1446>> >>,
       << <<"read", "np", 1462>>, <<"read", "A", 1462>>, <<"bind", "B", 1462>> >>,
       << <<"read", "B", 1472>>, <<"read", "A", 1474>> >>,
       << <<"bind", "Theta", 1493>> >>,
       << <<"read", "np", 1509>>, <<"bind", "v1", 1509>>,
          <<"read", "Theta", 1511>>, <<"read", "v1", 1511>>,
          <<"fail", "always", 1511>> >>,
       << <<"read", "np", 1529>>, <<"read", "Theta", 1529>>,
          <<"bind", "Theta_vec", 1529>> >>,
       << <<"read", "Theta_vec", 1538>>, <<"read", "v1", 1538>> >>,
       << <<"bind", "Theta", 1554>> >>,
       << <<"read", "Theta", 1567>>, <<"read", "v1", 1567>> >>,
       << <<"read", "Theta", 1577>>, <<"read", "Theta", 1577>> >>
    >>

TutorialCells ==
    <<
       << <<"bind", "x", 26>>, <<"read", "x", 27>>,
          <<"bind", "my_string", 29>>, <<"read", "my_string", 30>>,
          <<"bind", "my_string", 33>>, <<"read", "my_string", 34>> >>,
       << <<"bind", "integer_var", 57>>, <<"bind", "float_var", 58>>,
          <<"bind", "complex_var", 59>>, <<"read", "integer_var", 61>>,
          <<"read", "float_var", 62>>, <<"read", "complex_var", 63>> >>,
       << >>,
       << <<"bind", "statement", 98>>, <<"read", "statement", 99>>,
          <<"read", "statement", 100>>, <<"read", "statement", 101>> >>,
       << <<"bind", "number", 118>>, <<"read", "number", 119>>,
          <<"read", "number", 119>> >>,
       << <<"bind", "my_list", 139>>, <<"read", "my_list", 141>>,
          <<"read", "my_list", 142>> >>,
       << <<"bind", "number_list", 158>>, <<"read", "number_list", 160>>,
          <<"read", "number_list", 161>>, <<"read", "number_list", 163>>,
          <<"read", "number_list", 164>>, <<"read", "number_list", 166>>,
          <<"read", "number_list", 167>>, <<"read", "number_list", 169>>,
          <<"bind", "number", 169>>, <<"read", "number", 170>>,
          <<"read", "number_list", 170>>, <<"read", "number_list", 172>>,
          <<"read", "number_list", 173>>, <<"read", "number_list", 175>>,
          <<"read", "number_list", 176>>, <<"read", "number_list", 178>>,
          <<"bind", "minimum", 178>>, <<"read", "number_list", 179>>,
          <<"bind", "maximum", 179>>, <<"read", "minimum", 180>>,
          <<"read", "maximum", 180>> >>,
       << <<"bind", "my_2d_array", 197>>, <<"read", "my_2d_array", 198>> >>,
       << <<"bind", "my_age_dictionary", 217>>,
          <<"read", "my_age_dictionary", 218>>,
          <<"read", "my_age_dictionary", 219>>,
          <<"read", "my_age_dictionary", 220>> >>,
       << <<"bind", "my_dictionary", 236>>, <<"read", "my_dictionary", 237>>,
          <<"read", "my_dictionary", 238>>, <<"read", "my_dictionary", 240>>,
          <<"read", "my_dictionary", 241>> >>,
       << <<"bind", "my_2d_array", 259>>, <<"read", "my_2d_array", 261>>,
          <<"bind", "row", 261>>, <<"read", "row", 262>>,
          <<"bind", "value", 262>>, <<"read", "value", 263>> >>,
       << <<"read", "my_2d_array", 280>>, <<"bind", "i", 280>>,
          <<"read", "my_2d_array", 281>>, <<"read", "i", 281>>,
          <<"read", "my_2d_array", 284>>, <<"bind", "i", 284>>,
          <<"read", "my_2d_array", 285>>, <<"read", "i", 285>> >>,
       << <<"bind", "names", 302>>, <<"read", "names", 304>>,
          <<"bind", "name", 304>>, <<"read", "name", 305>>,
          <<"read", "names", 313>>, <<"bind", "name", 313>>,
          <<"read", "name", 314>> >>,
       << <<"bind", "some_int", 337>>, <<"read", "some_int", 339>>,
          <<"read", "some_int", 341>>, <<"bind", "some_int", 341>>,
          <<"read", "some_int", 342>> >>,
       << <<"bind", "some_object", 361>>, <<"bind", "my_function", 362>>,
          <<"read", "my_function", 365>>, <<"read", "some_object", 365>> >>,
       << <<"bind", "another_function", 382>>,
          <<"read", "another_function", 386>>,
          <<"read", "another_function", 389>> >>
    >>

Notebooks == {"numpy", "tutorial"}

CellsOf(n) == IF n = "numpy" THEN NumpyCells ELSE TutorialCells

\* np.float128, np.bool and np.sctypes exist in some builds of numpy only
LibraryAttrs == {"float128", "bool", "sctypes"}

\* the top-level names a cell looks up or binds
NamesIn(evs) == {evs[k][2] : k \in {j \in 1..Len(evs) : evs[j][1] # "fail"}}

\* every top-level name of the two notebooks
TopNames ==
    UNION {UNION {NamesIn(CellsOf(n)[c]) : c \in 1..Len(CellsOf(n))} : n \in Notebooks}

\* BindName that leaves a name that is already bound as it is
BindName_KeepFirst(b, name, line) ==
    IF b[name] # 0 THEN b ELSE [b EXCEPT ![name] = line]

\* name = value: the name is bound to the object of this statement
BindName(b, name, line) == [b EXCEPT ![name] = line]

\* the statement at a fail event raises: always, or for want of an attribute
Raises(cause, missing) == cause = "always" \/ cause \in missing

\* the cell runs from its k-th event on: a lookup of an unbound name is a
\* NameError, and an exception ends the cell where it is raised
RECURSIVE RunEvents(_, _, _, _)
RunEvents(evs, k, st, missing) ==
    IF k > Len(evs) THEN st
    ELSE LET ev == evs[k]
         IN  IF ev[1] = "read"
             THEN IF st.bound[ev[2]] = 0
                  THEN [st EXCEPT !.status = "NameError"]
                  ELSE RunEvents(evs, k + 1,
                           [st EXCEPT !.seen = @ \cup {<<ev[2], ev[3], st.bound[ev[2]]>>}],
                           missing)
             ELSE IF ev[1] = "bind"
             THEN RunEvents(evs, k + 1,
                      [st EXCEPT !.bound = BindName(@, ev[2], ev[3])], missing)
             ELSE IF Raises(ev[2], missing)
                  THEN [st EXCEPT !.status = "error"]
                  ELSE RunEvents(evs, k + 1, st, missing)

\* the next code cell of the notebook runs
RunCell ==
    /\ cell <= Len(CellsOf(nb))
    /\ LET st == RunEvents(CellsOf(nb)[cell], 1,
                           [bound |-> bound, seen |-> {}, status |-> "ok"], absent)
       IN  /\ bound' = st.bound
           /\ seen' = st.seen
           /\ status' = st.status
    /\ cell' = cell + 1
    /\ UNCHANGED <<nb, absent>>
    /\ UNCHANGED nbvars
    /\ UNCHANGED tutvars

----------------------------------------------------------------------------
(* Specifications.                                                         *)

NoEnv == [n \in EnvNames |-> Unbound]
NoDefs == [n \in {"Theta", "Theta_vec"} |-> NoFunc]

\* the list the for-else cell binds
NamesLiteral == <<"Leanord", "Sheldon", "Penny">>
\* the literal of v1 and the scalar arguments -1.2 and 2.6, in tenths
V1Literal == <<-3, -2, -1, 0, 1, 2, 3>>
ScalarLiterals == <<-12, 26>>

TutorialIdle ==
    /\ names = NamesLiteral
    /\ loop = 1
    /\ i = 0
    /\ printed = <<>>

SessionIdle ==
    /\ nb = "numpy"
    /\ cell = 1
    /\ bound = [n \in TopNames |-> 0]
    /\ seen = {}
    /\ status = "none"
    /\ absent = {}

NotebookIdle ==
    /\ pc = 1
    /\ rng = 0
    /\ heap = <<>>
    /\ env = NoEnv
    /\ defs = NoDefs
    /\ out = NoOutput
    /\ written = {}
    /\ inspected = <<>>
    /\ vin = V1Literal
    /\ xin = ScalarLiterals

\* introduction-to-numpy, as written, from a fresh kernel
Init ==
    /\ pc = 1
    /\ rng \in 0..(MaxSeed - 1)
    /\ heap = <<>>
    /\ env = NoEnv
    /\ defs = NoDefs
    /\ out = NoOutput
    /\ written = {}
    /\ inspected = <<>>
    /\ vin = V1Literal
    /\ xin = ScalarLiterals
    /\ TutorialIdle
    /\ SessionIdle

NextTheta ==
    \/ CellDefTheta
    \/ CellV1
    \/ CellThetaVec
    \/ CellThetaVecV1
    \/ CellDefThetaVector
    \/ CellThetaV1
    \/ CellThetaScalars

Next ==
    \/ CellIntegers
    \/ CellIntegersItem
    \/ CellIntegersSlice
    \/ CellA
    \/ CellS1
    \/ CellAItem
    \/ CellArrArgmax
    \/ CellIdxs
    \/ CellGreater10
    \/ CellGreater10Item
    \/ CellSave
    \/ CellVec
    \/ CellArr
    \/ CellVecArr
    \/ CellVecColArr
    \/ CellVecCol4Arr
    \/ CellAMatrix
    \/ CellBigA
    \/ CellBAlias
    \/ CellBItem
    \/ CellBCopy
    \/ CellBCopyItem
    \/ NextTheta

Spec == Init /\ [][Next]_vars

\* vectors of at most MaxLen integers, scalars around zero
Vectors == UNION {[1..n -> (-MaxAbs)..MaxAbs] : n \in 0..MaxLen} \cup {V1Literal}
ScalarSamples == {-12, 0, 26}

\* the Theta cells, with the literals drawn from bounded sets
InitTheta ==
    /\ pc = IndexOf("def_Theta", 1)
    /\ rng = 0
    /\ heap = <<>>
    /\ env = NoEnv
    /\ defs = NoDefs
    /\ out = NoOutput
    /\ written = {}
    /\ inspected = <<>>
    /\ vin \in Vectors
    /\ xin \in ScalarSamples \X ScalarSamples
    /\ TutorialIdle
    /\ SessionIdle

ThetaSpec == InitTheta /\ [][NextTheta]_vars

\* the for-else cell, with the list drawn from bounded sets
Lists == UNION {[1..n -> Names] : n \in 0..MaxLen}

InitSearch ==
    /\ names \in Lists
    /\ loop = 1
    /\ i = 0
    /\ printed = <<>>
    /\ NotebookIdle
    /\ SessionIdle

NextSearch ==
    \/ ForBody
    \/ ForElse

SearchSpec == InitSearch /\ [][NextSearch]_vars

\* either notebook run top to bottom from a fresh kernel, on any numpy
InitSession ==
    /\ nb \in Notebooks
    /\ cell = 1
    /\ bound = [n \in TopNames |-> 0]
    /\ seen = {}
    /\ status = "none"
    /\ absent \in SUBSET LibraryAttrs
    /\ NotebookIdle
    /\ TutorialIdle

NextSession == RunCell

SessionSpec == InitSession /\ [][NextSession]_vars

----------------------------------------------------------------------------
(* Properties.                                                             *)

\* C1: for each of the two for-else searches over names, the else branch
\* runs exactly when the loop ended without break: a target that is in the
\* list is reported "Found" once and never "Did not find", a target that is
\* not in the list is reported "Did not find" exactly once, when the loop is
\* over, and never "Found".
ForElseSearch ==
    \A l \in {1, 2} :
        LET t == Target(l)
            inList == \E k \in 1..Len(names) : names[k] = t
            nFound == Cardinality({k \in 1..Len(printed) : printed[k] = Found(t)})
            nNot == Cardinality({k \in 1..Len(printed) : printed[k] = NotFound(t)})
        IN  /\ inList => nNot = 0
            /\ ~inList => nFound = 0
            /\ loop <= l => nFound = 0 /\ nNot = 0
            /\ loop > l => IF inList THEN nFound = 1 ELSE nNot = 1

\* the cell as written has run: Leanord was found, Evan was not
ForElseSearchWitness ==
    /\ names = NamesLiteral
    /\ loop = 3
    /\ printed = <<Found("Leanord"), NotFound("Evan")>>

\* C2 as stated: from the cell s1 = a[1::3] on, at every later point,
\* s1[k] == a[1+3k] for the array that a names.
SliceViewAtEveryLaterPoint ==
    After("s1") =>
        /\ env["a"].shape = <<10>>
        /\ \A k \in 0..2 :
              GetItem(heap, env["s1"], <<k>>) = GetItem(heap, env["a"], <<1 + 3 * k>>)

\* C2 amended: while a names the array of np.arange(10), that is until the
\* cell a = np.array([[1, 2], [3, 4]]) rebinds a, s1 shares a's buffer and
\* s1[k] == a[1+3k]; after a[7] = 77 the view s1 reads [1, 4, 77], and keeps
\* reading it later, and a differs from arange(10) only at element 7.
SliceViewShared ==
    /\ (After("s1") /\ ~After("a_matrix")) =>
          /\ env["s1"].buf = env["a"].buf
          /\ env["s1"].shape = <<3>>
          /\ \A k \in 0..2 :
                GetItem(heap, env["s1"], <<k>>) = GetItem(heap, env["a"], <<1 + 3 * k>>)
    /\ (After("s1") /\ ~After("a_item")) =>
          Read(heap, env["s1"]).data = <<1, 4, 7>>
    /\ After("a_item") =>
          Read(heap, env["s1"]).data = <<1, 4, 77>>
    /\ (After("a_item") /\ ~After("a_matrix")) =>
          Read(heap, env["a"]).data = [arange(0, 10) EXCEPT ![8] = 77]

\* a[7] = 77 has run and the cell showed s1 as [1, 4, 77]
SliceViewSharedWitness ==
    /\ pc = IndexOf("a_item", 1) + 1
    /\ out = Ok(Value(<<3>>, <<1, 4, 77>>))
    /\ GetItem(heap, env["a"], <<7>>) = 77

\* C3: greater10 = arr[np.where(arr > 10)] is a copy: the cell
\* greater10[-1] = 0 sets the last element of greater10 and changes no other
\* buffer, so that every element of arr is as before and arr[1, 8] is still
\* its maximum 21.
FancyIndexCopy ==
    [][AtCell("greater10_item") =>
         /\ Read(heap', env'["arr"]) = Read(heap, env["arr"])
         /\ GetItem(heap', env'["arr"], <<1, 8>>) = 21
         /\ \A k \in 1..Len(Read(heap', env'["arr"]).data) :
               Read(heap', env'["arr"]).data[k] <= 21
         /\ GetItem(heap', env'["greater10"], <<-1>>) = 0
         /\ GetItem(heap, env["greater10"], <<-1>>) = 21
         /\ \A b \in 1..Len(heap) : b # env["greater10"].buf => heap'[b] = heap[b]
         /\ env' = env]_vars

\* greater10[-1] = 0 has run: greater10 ends in 0 and arr[1, 8] is 21
FancyIndexCopyWitness ==
    /\ pc = IndexOf("greater10_item", 1) + 1
    /\ GetItem(heap, env["greater10"], <<-1>>) = 0
    /\ GetItem(heap, env["arr"], <<1, 8>>) = 21

\* C4: after B = A the two names are bound to the same array, so after
\* B[0,0] = 10, A[0,0] == 10; after B = np.copy(A), B has a buffer of its
\* own, so after B[0,0] = -5, A is still [[10, 2], [3, 4]].
AliasVersusCopy ==
    /\ (After("B_alias") /\ ~After("B_copy")) => env["B"] = env["A"]
    /\ (After("B_alias") /\ ~After("B_item")) =>
          Read(heap, env["A"]).data = <<1, 2, 3, 4>>
    /\ After("B_item") =>
          /\ GetItem(heap, env["A"], <<0, 0>>) = 10
          /\ Read(heap, env["A"]) = Value(<<2, 2>>, <<10, 2, 3, 4>>)
    /\ After("B_copy") => env["B"].buf # env["A"].buf
    /\ After("B_copy_item") =>
          Read(heap, env["B"]) = Value(<<2, 2>>, <<-5, 2, 3, 4>>)

\* B[0,0] = -5 has run on the copy and the cell showed A with A[0,0] = 10
AliasVersusCopyWitness ==
    /\ pc = IndexOf("B_copy_item", 1) + 1
    /\ GetItem(heap, env["B"], <<0, 0>>) = -5
    /\ out = Ok(Value(<<2, 2>>, <<10, 2, 3, 4>>))

\* C5: the cell integers[-2:] = [-23, -46] sets the last two of the 10
\* elements of integers to -23 and -46 and leaves elements 0..7 and the length
\* as they were.
SliceAssignLastTwo ==
    [][AtCell("integers_slice") =>
         LET old == Read(heap, env["integers"])
             new == Read(heap', env'["integers"])
         IN  /\ new.shape = <<num_samples>>
             /\ old.shape = <<num_samples>>
             /\ new.data[9] = -23
             /\ new.data[10] = -46
             /\ \A k \in 1..8 : new.data[k] = old.data[k]
             /\ out'.status = "ok"]_vars

\* the slice assignment has run on an array whose element 4 is 99
SliceAssignLastTwoWitness ==
    /\ pc = IndexOf("integers_slice", 1) + 1
    /\ Read(heap, env["integers"]).data[5] = 99
    /\ SubSeq(Read(heap, env["integers"]).data, 9, 10) = <<-23, -46>>

\* C6 as stated: for every integer vector v, Theta_vec(v) equals the
\* vector-aware Theta(v) element by element.
ThetaVecAgreesOnEveryVector ==
    pc = IndexOf("Theta_vec_v1", 1) + 1 =>
        out = ThetaVector(Value(<<Len(vin)>>, vin))

\* C6 amended: for every integer vector v with at least one element,
\* Theta_vec(v) (np.vectorize of the scalar Theta) equals the vector-aware
\* Theta(v) element by element; the vector-aware Theta gives for each element
\* of v, and for a scalar x, what the scalar Theta gives; for
\* v1 = [-3,-2,-1,0,1,2,3] both give [0,0,0,1,1,1,1].
ThetaVecAgrees ==
    LET v == Value(<<Len(vin)>>, vin)
    IN  /\ (pc = IndexOf("Theta_vec_v1", 1) + 1 /\ Len(vin) > 0) =>
              /\ defs["Theta_vec"] = vectorize(ScalarFunc)
              /\ out.status = "ok"
              /\ out = ThetaVector(v)
        /\ pc = IndexOf("Theta_v1", 1) + 1 =>
              /\ defs["Theta"] = VectorFunc
              /\ out.status = "ok"
              /\ out.shape = <<Len(vin)>>
              /\ \A k \in 1..Len(vin) :
                    out.data[k] = ThetaScalar(Scalar(vin[k])).data[1]
        /\ pc = IndexOf("Theta_scalars", 1) + 1 =>
              /\ out.status = "ok"
              /\ out.data = <<ThetaScalar(Scalar(xin[1])).data[1],
                              ThetaScalar(Scalar(xin[2])).data[1]>>
        /\ (vin = V1Literal /\ pc \in {IndexOf("Theta_vec_v1", 1) + 1,
                                       IndexOf("Theta_v1", 1) + 1}) =>
              out.data = <<0, 0, 0, 1, 1, 1, 1>>

\* Theta_vec(v1) has run on the literal of the notebook
ThetaVecAgreesWitness ==
    /\ pc = IndexOf("Theta_vec_v1", 1) + 1
    /\ vin = V1Literal
    /\ out = Ok(Value(<<7>>, <<0, 0, 0, 1, 1, 1, 1>>))

\* C7: the scalar Theta called on an array of more than one element ends in
\* an error (the truth value of the comparison is ambiguous) and returns no
\* value.
ScalarThetaRejectsVector ==
    (pc = IndexOf("v1", 1) + 1 /\ Len(vin) > 1) =>
        /\ defs["Theta"] = ScalarFunc
        /\ out = Error("ValueError")

\* Theta(v1) has run with the scalar Theta on the 7-element literal
ScalarThetaRejectsVectorWitness ==
    /\ pc = IndexOf("v1", 1) + 1
    /\ vin = V1Literal
    /\ out.status = "error"

\* C8 as stated: a cell that fails creates or changes no variable of the
\* session, and the cells Theta_vec(v1) and vec[:4, None] * arr succeed.
FailedCellChangesNothing ==
    [][/\ out'.status = "error" => (env' = env /\ heap' = heap /\ defs' = defs)
       /\ (AtCell("Theta_vec_v1") \/ AtCell("vec_col4_arr")) => out'.status = "ok"]_vars

\* C8 amended: the cells that fail are vec[:, None] * arr and
\* v1 = ...; Theta(v1).  The failure is the outcome of the cell and the
\* session goes on with the next cell; the failing expression creates or
\* changes nothing, while a statement of the cell that ran before it keeps
\* its effect: the second cell binds v1 to its literal and changes nothing
\* else, the first changes nothing.  The cell after a failed one does not
\* fail, and Theta_vec(v1) and vec[:4, None] * arr succeed.
FailedCellKeepsEarlierStatements ==
    [][/\ out'.status = "error" <=> (AtCell("vec_col_arr") \/ AtCell("v1"))
       /\ out'.status = "error" =>
             /\ pc' = pc + 1
             /\ defs' = defs
             /\ \A b \in 1..Len(heap) : heap'[b] = heap[b]
             /\ \A n \in EnvNames \ {"v1"} : env'[n] = env[n]
             /\ IF AtCell("v1")
                THEN /\ ~IsBound(env["v1"])
                     /\ IsBound(env'["v1"])
                     /\ Read(heap', env'["v1"]) = Value(<<Len(vin)>>, vin)
                ELSE env' = env /\ heap' = heap
       /\ out.status = "error" => out'.status # "error"
       /\ (AtCell("Theta_vec_v1") \/ AtCell("vec_col4_arr")) => out'.status = "ok"]_vars

\* Theta(v1) has failed and Theta_vec(v1) has then run on the v1 that the
\* failed cell bound
FailedCellKeepsEarlierStatementsWitness ==
    /\ pc = IndexOf("Theta_vec_v1", 1) + 1
    /\ IsBound(env["v1"])
    /\ out.status = "ok"

\* C9: with vec of shape (5,) and arr of shape (4, 5), vec * arr has shape
\* (4, 5) and result[i][j] == vec[j] * arr[i][j]; vec[:, None] * arr, of
\* shapes (5, 1) and (4, 5), is an error; vec[:4, None] * arr, of shapes
\* (4, 1) and (4, 5), has result[i][j] == vec[i] * arr[i][j].
BroadcastMultiply ==
    LET atVec(k) == GetItem(heap, env["vec"], <<k>>)
        atArr(r, c) == GetItem(heap, env["arr"], <<r, c>>)
    IN  /\ (After("arr") /\ ~After("vec_col4_arr")) =>
              /\ env["vec"].shape = <<5>>
              /\ env["arr"].shape = <<4, 5>>
              /\ NewAxis(SliceView(env["vec"], None, None, 1)).shape = <<5, 1>>
              /\ NewAxis(SliceView(env["vec"], None, Some(4), 1)).shape = <<4, 1>>
        /\ pc = IndexOf("vec_arr", 1) + 1 =>
              /\ out.status = "ok"
              /\ out.shape = <<4, 5>>
              /\ \A r \in 0..3, c \in 0..4 :
                    out.data[r * 5 + c + 1] = atVec(c) * atArr(r, c)
        /\ pc = IndexOf("vec_col_arr", 1) + 1 => out = Error("ValueError")
        /\ pc = IndexOf("vec_col4_arr", 1) + 1 =>
              /\ out.status = "ok"
              /\ out.shape = <<4, 5>>
              /\ \A r \in 0..3, c \in 0..4 :
                    out.data[r * 5 + c + 1] = atVec(r) * atArr(r, c)

\* vec[:, None] * arr has failed
BroadcastMultiplyWitness ==
    /\ pc = IndexOf("vec_col_arr", 1) + 1
    /\ out.status = "error"
    /\ env["vec"].shape = <<5>>

\* C10: once the save cell has run, the path handed to the shell command
\* file is one of the files that np.save wrote.
InspectedFileWasWritten ==
    After("save") => inspected \in written


\* C11: in a session run top to bottom, on either notebook, no lookup of a
\* top-level name fails: every name a cell reads was bound by a statement of
\* the same or an earlier cell, and it is read with its most recent binding,
\* the last assignment of the name that precedes the read in the notebook
\* (so a, b, arr, idx, col_vec, gaussian, mask and my_2d_array are read with
\* their later binding once they are rebound); a cell changes the binding of
\* no name other than those its own statements assign.
ReadsSeeLatestBinding ==
    [][cell' = cell + 1 =>
         LET cs == CellsOf(nb)
             evs == cs[cell]
             \* the lines of the assignments of name before event k of this cell
             before(name, k) ==
                 {evs[j][3] : j \in {x \in 1..(k - 1) :
                                  evs[x][1] = "bind" /\ evs[x][2] = name}}
                 \cup UNION {{cs[c][j][3] : j \in {x \in 1..Len(cs[c]) :
                                  cs[c][x][1] = "bind" /\ cs[c][x][2] = name}} :
                             c \in 1..(cell - 1)}
             latest(name, k) ==
                 CHOOSE l \in before(name, k) : \A m \in before(name, k) : m <= l
         IN  /\ status' # "NameError"
             /\ \A t \in seen' :
                   \E k \in 1..Len(evs) :
                      /\ evs[k] = <<"read", t[1], t[2]>>
                      /\ before(t[1], k) # {}
                      /\ t[3] = latest(t[1], k)
                      /\ t[3] <= t[2]
             /\ status' = "ok" =>
                   \A k \in 1..Len(evs) :
                      evs[k][1] = "read" =>
                         \E t \in seen' : t[1] = evs[k][2] /\ t[2] = evs[k][3]
             /\ \A n \in TopNames :
                   bound'[n] # bound[n] =>
                      \E k \in 1..Len(evs) : evs[k] = <<"bind", n, bound'[n]>>
             /\ UNCHANGED <<nb, absent>>]_vars

\* the cell np.repeat(a, 3) has run after a was rebound at line 1320, in a
\* session where gaussian, col_vec, idx, mask, b and arr were rebound too
ReadsSeeLatestBindingWitness ==
    /\ nb = "numpy"
    /\ <<"a", 1331, 1320>> \in seen
    /\ status = "ok"
    /\ bound["gaussian"] = 367
    /\ bound["col_vec"] = 1289
    /\ bound["idx"] = 1034
    /\ bound["mask"] = 860
    /\ bound["arr"] = 1206
    /\ bound["b"] = 942

====
